---- MODULE Spec2Model ----
(***************************************************************************)
(* Model of backend/main.py: the WebSocket connection manager, the         *)
(* per-channel handler websocket_endpoint, the JWT session check and the   *)
(* conversation fetch get_messages.                                        *)
(*                                                                         *)
(* The server is one asyncio event loop: a handler runs without            *)
(* interleaving from one await to the next.  Each action below is one such *)
(* run-to-suspension segment.  The sqlite calls are synchronous, so they   *)
(* never split a segment; they may raise (dbOk = FALSE).                   *)
(***************************************************************************)
EXTENDS Integers, Sequences, FiniteSets, TLC

\* ---------------------------------------------------------------- bounds
MaxChannels == 2   \* channels opened during a run
MaxMsgs == 2       \* inbound websocket frames handled during a run
MaxTime == 1       \* clock ticks during a run
NumUsers == 2      \* rows of the users table
MaxPast == 3       \* records of a store of mixed conversations

\* ------------------------------------------------------ program constants
LIMIT == 100            \* "LIMIT 100" / "total_count > 100" of get_messages
TokenLifetime == 604800 \* timedelta(days=7) of create_token, in seconds
FreshWindow == 30       \* ".seconds < 30" of the user endpoints
SecondsPerDay == 86400  \* the range of the seconds field of a timedelta

Users == 1..NumUsers
Channels == 1..MaxChannels
Contents == {"hi"}

VARIABLES
    active_connections, \* manager.active_connections, as a set of <<user_id, channel>>
    messages,           \* table messages, in rowid order
    last_seen,          \* column users.last_seen
    pc,                 \* where each channel's websocket_endpoint coroutine is
    user,               \* the path parameter user_id of each channel's handler
    open,               \* the transport of the channel is connected
    pending,            \* the channel whose send_text a handler is suspended in
    pushes,             \* every send_text call made so far, in order
    accepted,           \* the frames whose INSERT was committed, each with its channel
                        \* and whether its receiver was registered at that moment
    nframes,            \* how many frames receive_text has returned so far
    now,                \* datetime.now(), in seconds
    resp                \* the response of the HTTP request being answered

vars == <<active_connections, messages, last_seen, pc, user, open,
          pending, pushes, accepted, nframes, now, resp>>

\* ------------------------------------------------------------ JSON frames
\* A text frame: whether it is JSON at all, which keys the object has, and
\* the values under receiver_id and content (0 / "" when the key is absent).
Frame(json, keys, rid, content) ==
    [json |-> json, keys |-> keys, receiver_id |-> rid, content |-> content]

Frames ==
    {Frame(TRUE, {"receiver_id", "content"}, r, t) : r \in Users, t \in Contents}
    \cup {Frame(TRUE, {"content"}, 0, "hi")}
    \cup {Frame(FALSE, {}, 0, "")}

\* json.loads(data) succeeds
json_loads_ok(data) == data.json

\* message_data['receiver_id'] and message_data['content'] both succeed
has_keys(data) == {"receiver_id", "content"} \subseteq data.keys


\* --------------------------------------------------------- session tokens
\* request.cookies.get("session"): absent, or a JWT with a signature that verifies under
\* SECRET_KEY or not, an exp claim, and a user_id claim (0: no such claim).
Token(present, signed, uid, exp) ==
    [present |-> present, signed |-> signed, user_id |-> uid, exp |-> exp]

NoToken == Token(FALSE, FALSE, 0, 0)

\* create_token(user_id) called at time t
create_token(user_id, t) == Token(TRUE, TRUE, user_id, t + TokenLifetime)

Tokens ==
    {NoToken}
    \cup {create_token(u, 0) : u \in Users}
    \cup {Token(TRUE, FALSE, 1, TokenLifetime)}   \* altered signature
    \cup {create_token(1, -1 - TokenLifetime)}    \* expired before the run
    \cup {create_token(2, -TokenLifetime)}        \* expires when the clock ticks
    \cup {Token(TRUE, TRUE, 0, TokenLifetime)}    \* no user_id claim

\* jose_jwt.decode(token, SECRET_KEY, algorithms=[ALGORITHM]) does not raise
jwt_decode_ok(token, t) == token.signed /\ token.exp >= t

\* A faulty verifier: the exp claim is not looked at.
get_current_user_noexp(token, t) ==
    IF ~token.present THEN 0
    ELSE IF ~token.signed THEN 0
    ELSE token.user_id

\* get_current_user: the user id, or 0 for None (callers test "not user_id")
get_current_user(token, t) ==
    IF ~token.present THEN 0
    ELSE IF ~jwt_decode_ok(token, t) THEN 0
    ELSE token.user_id

\* ------------------------------------------------------ ConnectionManager
\* A faulty connect: the new handle is added beside the old one.
connect_add(ac, websocket, user_id) == ac \cup {<<user_id, websocket>>}

\* connect: self.active_connections[user_id] = websocket
connect(ac, websocket, user_id) ==
    {p \in ac : p[1] # user_id} \cup {<<user_id, websocket>>}

\* disconnect: if user_id in self.active_connections:
\*                 del self.active_connections[user_id]
disconnect(ac, user_id) == {p \in ac : p[1] # user_id}

\* user_id in self.active_connections
registered(ac, user_id) == \E p \in ac : p[1] = user_id

\* send_message(message, user_id): the websockets it calls send_text on,
\* self.active_connections[user_id] when user_id is a key
send_message(ac, user_id) == {p[2] : p \in {q \in ac : q[1] = user_id}}

\* ---------------------------------------------------------- message store
Record(id, s, r, content, ts) ==
    [id |-> id, sender_id |-> s, receiver_id |-> r, content |-> content,
     timestamp |-> ts]

\* A faulty insert: the row takes the id of the last row and replaces it.
insert_overwrite(msgs, s, r, content, ts) ==
    IF msgs = <<>> THEN <<Record(1, s, r, content, ts)>>
    ELSE [msgs EXCEPT ![Len(msgs)] = Record(Len(msgs), s, r, content, ts)]

\* A faulty insert: the new row is put before the rows already stored.
insert_front(msgs, s, r, content, ts) ==
    <<Record(Len(msgs) + 1, s, r, content, ts)>> \o msgs

\* INSERT INTO messages (sender_id, receiver_id, content, timestamp)
\* VALUES (?, ?, ?, ?); conn.commit().  id is AUTOINCREMENT and no row is
\* ever deleted, so the new id is the number of rows plus one.
insert_message(msgs, s, r, content, ts) ==
    Append(msgs, Record(Len(msgs) + 1, s, r, content, ts))

\* The n records users 1 and 2 exchanged before the process started:
\* messenger.db outlives the process, the registry does not.  A run starts
\* with an empty table or with LIMIT records of one conversation, so that
\* the frames of the run take the conversation past LIMIT.
History(n) ==
    [i \in 1..n |->
        Record(i, IF i % 2 = 1 THEN 1 ELSE 2, IF i % 2 = 1 THEN 2 ELSE 1,
               "old", i - n - 1)]

PriorCounts == {0, LIMIT}

\* The stores of up to MaxPast records that earlier runs can have left
\* behind: any senders and receivers, a user writing to itself included,
\* ids in rowid order and timestamps in the past.
PastStores ==
    UNION {{[i \in 1..n |-> Record(i, f[i][1], f[i][2], "old", i - n - 1)] :
               f \in [1..n -> Users \X Users]} : n \in 0..MaxPast}

\* A faulty WHERE clause: every row that a sent or received and every row
\* that b sent or received.
between_either(m, a, b) ==
    \/ m.sender_id \in {a, b}
    \/ m.receiver_id \in {a, b}

\* WHERE (sender_id = a AND receiver_id = b) OR (sender_id = b AND receiver_id = a)
between(m, a, b) ==
    \/ m.sender_id = a /\ m.receiver_id = b
    \/ m.sender_id = b /\ m.receiver_id = a

Conversation(msgs, a, b) == SelectSeq(msgs, LAMBDA m : between(m, a, b))

\* ORDER BY timestamp ASC, as a stable merge sort.  SQLite leaves the order
\* of rows of equal timestamp open; they are kept in rowid order here, and
\* no property below depends on the order among them.
RECURSIVE Merge(_, _)
Merge(a, b) ==
    IF a = <<>> THEN b
    ELSE IF b = <<>> THEN a
    ELSE IF a[Len(a)].timestamp <= b[1].timestamp THEN a \o b
    ELSE LET mid == (Len(a) + 1) \div 2
             k == Len(SelectSeq(b, LAMBDA m : m.timestamp < a[mid].timestamp))
         IN Merge(SubSeq(a, 1, mid - 1), SubSeq(b, 1, k))
            \o <<a[mid]>>
            \o Merge(SubSeq(a, mid + 1, Len(a)), SubSeq(b, k + 1, Len(b)))

RECURSIVE order_by_timestamp(_)
order_by_timestamp(s) ==
    IF Len(s) <= 1 THEN s
    ELSE LET mid == Len(s) \div 2
         IN Merge(order_by_timestamp(SubSeq(s, 1, mid)),
                  order_by_timestamp(SubSeq(s, mid + 1, Len(s))))

\* LIMIT n: the first n rows of the ordered result
limit(s, n) == SubSeq(s, 1, IF Len(s) > n THEN n ELSE Len(s))

\* SELECT COUNT(*) as count FROM messages WHERE ... (both directions)
count_messages(msgs, a, b) == Len(Conversation(msgs, a, b))

\* SELECT * FROM messages WHERE ... ORDER BY timestamp ASC LIMIT 100
select_messages(msgs, a, b) ==
    limit(order_by_timestamp(Conversation(msgs, a, b)), LIMIT)

\* A faulty flag: set as soon as the window is full.
has_more_ge(total_count) == total_count >= LIMIT

\* "has_more": total_count > 100
has_more(total_count) == total_count > LIMIT

NoResp ==
    [status |-> 0, caller |-> 0, other |-> 0, messages |-> <<>>,
     total_count |-> 0, has_more |-> FALSE]

\* get_messages(other_user_id, user_id): the response, with the request's
\* caller and other_user_id kept beside it; 401 when "not user_id"
get_messages(msgs, other_user_id, user_id) ==
    IF user_id = 0
    THEN [NoResp EXCEPT !.status = 401]
    ELSE LET total_count == count_messages(msgs, user_id, other_user_id)
         IN [status |-> 200, caller |-> user_id, other |-> other_user_id,
             messages |-> select_messages(msgs, user_id, other_user_id),
             total_count |-> total_count,
             has_more |-> has_more(total_count)]

\* --------------------------------------------------------- user endpoints
\* timedelta.seconds: a timedelta is kept as days, seconds and microseconds
\* with 0 <= seconds < 86400, and .seconds is that field alone
timedelta_seconds(d) == d % SecondsPerDay

\* (datetime.now() - datetime.fromisoformat(user['last_seen'])).seconds < 30
online(t, seen) == timedelta_seconds(t - seen) < FreshWindow

\* one entry of a user response: id and online (username is not modelled)
user_entry(ls, u, t) == [id |-> u, online |-> online(t, ls[u])]

\* get_user_by_id(user_id, current_user): 401 when "not current_user", 404
\* when no row has that id, else the entry of the row
get_user_by_id(ls, user_id, current_user, t) ==
    IF current_user = 0 THEN [status |-> 401, caller |-> 0, users |-> {}]
    ELSE IF user_id \notin Users
    THEN [status |-> 404, caller |-> current_user, users |-> {}]
    ELSE [status |-> 200, caller |-> current_user,
          users |-> {user_entry(ls, user_id, t)}]

\* get_users(search, current_user): 401 when "not current_user"; else the
\* entries of the rows WHERE id != current_user, all of them when search is
\* None (0) and the one with id = int(search) when search is a number.  The
\* list is kept as a set, its order is left open by the query.
get_users(ls, search, current_user, t) ==
    IF current_user = 0 THEN [status |-> 401, caller |-> 0, users |-> {}]
    ELSE [status |-> 200, caller |-> current_user,
          users |-> {user_entry(ls, u, t) :
                        u \in {v \in Users : /\ v # current_user
                                              /\ search \in {0, v}}}]

\* last_seen of a row written before the process started: just now, at and
\* around the freshness window, and a day or more ago
PastSeen ==
    {0, 1 - FreshWindow, -FreshWindow, 1 - SecondsPerDay, -SecondsPerDay,
     -SecondsPerDay - 5, 1 - SecondsPerDay - FreshWindow}

\* ------------------------------------------------------------------ state
\* How a handler ends other than through its except branch: the exception
\* that leaves websocket_endpoint is raised by the last_seen UPDATE of
\* manager.connect, by json.loads or a key lookup, by the INSERT or its
\* commit, by send_text, or by the last_seen UPDATE of the except branch.
Failures ==
    {"failed_connect", "failed_frame", "failed_store", "failed_push",
     "failed_cleanup"}

TypeOK ==
    /\ active_connections \subseteq (Users \X Channels)
    /\ \A i \in 1..Len(messages) : messages[i].id = i
    /\ last_seen \in [Users -> Int]
    /\ pc \in [Channels -> {"new", "recv", "sending", "closed"} \cup Failures]
    /\ user \in [Channels -> 0..NumUsers]
    /\ open \in [Channels -> BOOLEAN]
    /\ pending \in [Channels -> 0..MaxChannels]
    /\ Len(pushes) <= nframes * MaxChannels
    /\ Len(accepted) <= nframes
    /\ nframes \in 0..MaxMsgs
    /\ now \in 0..MaxTime
    /\ resp.status \in {0, 200, 401, 404}

Init ==
    /\ active_connections = {}
    /\ messages \in {History(n) : n \in PriorCounts}
    /\ last_seen = [u \in Users |-> 0]
    /\ pc = [c \in Channels |-> "new"]
    /\ user = [c \in Channels |-> 0]
    /\ open = [c \in Channels |-> FALSE]
    /\ pending = [c \in Channels |-> 0]
    /\ pushes = <<>>
    /\ accepted = <<>>
    /\ nframes = 0
    /\ now = 0
    /\ resp = NoResp

\* The state after construction when the users were last seen during an
\* earlier run of the server.
InitUsers ==
    /\ active_connections = {}
    /\ messages = <<>>
    /\ last_seen \in [Users -> PastSeen]
    /\ pc = [c \in Channels |-> "new"]
    /\ user = [c \in Channels |-> 0]
    /\ open = [c \in Channels |-> FALSE]
    /\ pending = [c \in Channels |-> 0]
    /\ pushes = <<>>
    /\ accepted = <<>>
    /\ nframes = 0
    /\ now = 0
    /\ resp = NoResp

\* The state after construction over a store of mixed conversations.
InitFetch ==
    /\ active_connections = {}
    /\ messages \in PastStores
    /\ last_seen = [u \in Users |-> 0]
    /\ pc = [c \in Channels |-> "new"]
    /\ user = [c \in Channels |-> 0]
    /\ open = [c \in Channels |-> FALSE]
    /\ pending = [c \in Channels |-> 0]
    /\ pushes = <<>>
    /\ accepted = <<>>
    /\ nframes = 0
    /\ now = 0
    /\ resp = NoResp

\* no HTTP response is being written: the event loop is free to run the next
\* segment
Idle == resp = NoResp

\* the handler of channel c is suspended in receive_text or send_text
Running(c) == pc[c] \in {"recv", "sending"}

\* ---------------------------------------------------------------- actions
\* datetime.now() moves on
Tick ==
    /\ Idle
    /\ now < MaxTime
    /\ now' = now + 1
    /\ UNCHANGED <<active_connections, messages, last_seen, pc, user, open,
                   pending, pushes, accepted, nframes, resp>>

\* A client opens /ws/{user_id} with session cookie token: websocket_endpoint
\* up to its first receive_text, through manager.connect.  Channels are
\* numbered in the order they are opened.
Connect(c, user_id, token, dbOk) ==
    /\ Idle
    /\ pc[c] = "new"
    /\ \A d \in Channels : d < c => pc[d] # "new"
    /\ user' = [user EXCEPT ![c] = user_id]
    /\ active_connections' = connect(active_connections, c, user_id)
    /\ IF dbOk
       THEN /\ last_seen' = [last_seen EXCEPT ![user_id] = now]
            /\ pc' = [pc EXCEPT ![c] = "recv"]
            /\ open' = [open EXCEPT ![c] = TRUE]
       ELSE \* the UPDATE raises outside the try: the handler ends and the
            \* server closes the transport
            /\ pc' = [pc EXCEPT ![c] = "failed_connect"]
            /\ UNCHANGED <<last_seen, open>>
    /\ UNCHANGED <<messages, pending, pushes, accepted, nframes, now, resp>>

\* The client side of channel c goes away.
ClientClose(c) ==
    /\ Idle
    /\ Running(c)
    /\ open[c]
    /\ open' = [open EXCEPT ![c] = FALSE]
    /\ UNCHANGED <<active_connections, messages, last_seen, pc, user,
                   pending, pushes, accepted, nframes, now, resp>>

\* A faulty except branch: last_seen is updated but the registry is left
\* alone.
cleanup_keep(c, dbOk) ==
    /\ active_connections' = active_connections
    /\ open' = [open EXCEPT ![c] = FALSE]
    /\ IF dbOk
       THEN /\ last_seen' = [last_seen EXCEPT ![user[c]] = now]
            /\ pc' = [pc EXCEPT ![c] = "closed"]
       ELSE /\ pc' = [pc EXCEPT ![c] = "failed_cleanup"]
            /\ UNCHANGED last_seen

\* except WebSocketDisconnect: manager.disconnect(user_id), then the
\* last_seen UPDATE; the handler ends either way.
Cleanup(c, dbOk) ==
    /\ active_connections' = disconnect(active_connections, user[c])
    /\ open' = [open EXCEPT ![c] = FALSE]
    /\ IF dbOk
       THEN /\ last_seen' = [last_seen EXCEPT ![user[c]] = now]
            /\ pc' = [pc EXCEPT ![c] = "closed"]
       ELSE /\ pc' = [pc EXCEPT ![c] = "failed_cleanup"]
            /\ UNCHANGED last_seen

\* receive_text raises WebSocketDisconnect
Disconnected(c, dbOk) ==
    /\ Idle
    /\ pc[c] = "recv"
    /\ ~open[c]
    /\ Cleanup(c, dbOk)
    /\ UNCHANGED <<messages, user, pending, pushes, accepted, nframes, now, resp>>

\* Faulty orders of the loop body: the push made before the commit is known
\* to have succeeded, and the push made to the sender's own registration.
push_before_commit(committed, ac, receiver_id, sender) ==
    send_message(ac, receiver_id)

push_to_sender(committed, ac, receiver_id, sender) ==
    IF committed THEN send_message(ac, sender) ELSE {}

\* The channels the loop body pushes data to, given whether the INSERT was
\* committed: manager.send_message(data, message_data['receiver_id']) is
\* reached only when conn.commit() has returned.
push_after_commit(committed, ac, receiver_id, sender) ==
    IF committed THEN send_message(ac, receiver_id) ELSE {}

\* the text handed to send_text: data as received
pushed_text(data) == data

\* the channels of a set in increasing order
RECURSIVE InOrder(_)
InOrder(S) ==
    IF S = {} THEN <<>>
    ELSE LET d == CHOOSE x \in S : \A y \in S : x <= y
         IN <<d>> \o InOrder(S \ {d})

\* A faulty loop body: the exception of the INSERT is swallowed and the loop
\* goes on to the next receive_text.
after_frame_swallow(parsed, committed, targets) ==
    IF ~parsed THEN "failed_frame"
    ELSE IF targets = {} THEN "recv" ELSE "sending"

\* Where the loop body leaves the handler: nothing in the loop catches the
\* exception of json.loads, of a key lookup or of the INSERT, so each ends
\* the handler; otherwise the handler is in send_text when the receiver is
\* registered and back in receive_text when not.
after_frame(parsed, committed, targets) ==
    IF ~parsed THEN "failed_frame"
    ELSE IF ~committed THEN "failed_store"
    ELSE IF targets = {} THEN "recv" ELSE "sending"

\* One turn of the while loop: receive_text returns data, json.loads, the
\* INSERT and commit, send_message up to its send_text.
Receive(c, data, dbOk) ==
    /\ Idle
    /\ pc[c] = "recv"
    /\ open[c]
    /\ nframes < MaxMsgs
    /\ (json_loads_ok(data) /\ has_keys(data)) \/ dbOk
    /\ nframes' = nframes + 1
    /\ LET parsed == json_loads_ok(data) /\ has_keys(data)
           committed == parsed /\ dbOk
           targets == IF parsed
                      THEN push_after_commit(committed, active_connections,
                                             data.receiver_id, user[c])
                      ELSE {}
       IN /\ accepted' = IF committed
                         THEN Append(accepted,
                                     [chan |-> c, data |-> data,
                                      live |-> registered(active_connections,
                                                          data.receiver_id)])
                         ELSE accepted
          /\ messages' = IF committed
                         THEN insert_message(messages, user[c], data.receiver_id,
                                             data.content, now)
                         ELSE messages
          /\ pushes' = pushes \o [i \in 1..Cardinality(targets) |->
                                     [src |-> c, dst |-> InOrder(targets)[i],
                                      text |-> pushed_text(data)]]
          /\ pending' = IF targets = {} THEN pending
                        ELSE [pending EXCEPT ![c] = InOrder(targets)[1]]
          /\ pc' = [pc EXCEPT ![c] = after_frame(parsed, committed, targets)]
          /\ open' = [open EXCEPT ![c] =
                         after_frame(parsed, committed, targets) \notin Failures]
    /\ UNCHANGED <<active_connections, last_seen, user, now, resp>>

\* send_text returns: the frame reached the open transport of the target
SendDelivered(c) ==
    /\ Idle
    /\ pc[c] = "sending"
    /\ open[pending[c]]
    /\ pc' = [pc EXCEPT ![c] = "recv"]
    /\ pending' = [pending EXCEPT ![c] = 0]
    /\ UNCHANGED <<active_connections, messages, last_seen, user, open,
                   pushes, accepted, nframes, now, resp>>

\* send_text on a transport that is gone: depending on the ASGI server and
\* the Starlette version the frame is dropped silently, or send_text raises
\* RuntimeError, or it raises WebSocketDisconnect.
SendDropped(c) ==
    /\ Idle
    /\ pc[c] = "sending"
    /\ ~open[pending[c]]
    /\ pc' = [pc EXCEPT ![c] = "recv"]
    /\ pending' = [pending EXCEPT ![c] = 0]
    /\ UNCHANGED <<active_connections, messages, last_seen, user, open,
                   pushes, accepted, nframes, now, resp>>

SendRaises(c) ==
    /\ Idle
    /\ pc[c] = "sending"
    /\ ~open[pending[c]]
    /\ pc' = [pc EXCEPT ![c] = "failed_push"]
    /\ open' = [open EXCEPT ![c] = FALSE]
    /\ pending' = [pending EXCEPT ![c] = 0]
    /\ UNCHANGED <<active_connections, messages, last_seen, user,
                   pushes, accepted, nframes, now, resp>>

SendRaisesDisconnect(c, dbOk) ==
    /\ Idle
    /\ pc[c] = "sending"
    /\ ~open[pending[c]]
    /\ Cleanup(c, dbOk)
    /\ pending' = [pending EXCEPT ![c] = 0]
    /\ UNCHANGED <<messages, user, pushes, accepted, nframes, now, resp>>

\* POST /logout with session cookie token: 401 when "not user_id"; else the
\* cookie is deleted in the response and last_seen is updated.  The handler
\* does not touch manager.  When the UPDATE raises nothing is written.
Logout(token, dbOk) ==
    /\ Idle
    /\ last_seen' = IF get_current_user(token, now) # 0 /\ dbOk
                    THEN [last_seen EXCEPT ![get_current_user(token, now)] = now]
                    ELSE last_seen
    /\ UNCHANGED <<active_connections, messages, pc, user, open, pending,
                   pushes, accepted, nframes, now, resp>>

\* GET /messages/{other_user_id} with session cookie token
Fetch(token, other_user_id) ==
    /\ Idle
    /\ resp' = get_messages(messages, other_user_id, get_current_user(token, now))
    /\ UNCHANGED <<active_connections, messages, last_seen, pc, user, open,
                   pending, pushes, accepted, nframes, now>>

\* GET /users/{user_id} with session cookie token
GetUserById(token, user_id) ==
    /\ Idle
    /\ resp' = get_user_by_id(last_seen, user_id, get_current_user(token, now), now)
    /\ UNCHANGED <<active_connections, messages, last_seen, pc, user, open,
                   pending, pushes, accepted, nframes, now>>

\* GET /users?search=... with session cookie token
GetUsers(token, search) ==
    /\ Idle
    /\ resp' = get_users(last_seen, search, get_current_user(token, now), now)
    /\ UNCHANGED <<active_connections, messages, last_seen, pc, user, open,
                   pending, pushes, accepted, nframes, now>>

\* the response has been written
Respond ==
    /\ ~Idle
    /\ resp' = NoResp
    /\ UNCHANGED <<active_connections, messages, last_seen, pc, user, open,
                   pending, pushes, accepted, nframes, now>>

Core ==
    \/ Tick
    \/ \E c \in Channels, u \in Users, t \in Tokens, dbOk \in BOOLEAN :
          Connect(c, u, t, dbOk)
    \/ \E c \in Channels : ClientClose(c)
    \/ \E c \in Channels, dbOk \in BOOLEAN : Disconnected(c, dbOk)
    \/ \E c \in Channels, data \in Frames, dbOk \in BOOLEAN : Receive(c, data, dbOk)
    \/ \E c \in Channels : SendDelivered(c)
    \/ \E c \in Channels : SendDropped(c)
    \/ \E c \in Channels : SendRaises(c)
    \/ \E c \in Channels, dbOk \in BOOLEAN : SendRaisesDisconnect(c, dbOk)

Next ==
    \/ Core
    \/ \E t \in Tokens, dbOk \in BOOLEAN : Logout(t, dbOk)
    \/ \E t \in Tokens, o \in Users : Fetch(t, o)
    \/ Respond

Spec == Init /\ [][Next]_vars

SpecCore == Init /\ [][Core]_vars

\* The conversation fetch on its own, over stores of mixed conversations.
NextFetch ==
    \/ Tick
    \/ \E t \in Tokens, o \in Users : Fetch(t, o)
    \/ Respond

SpecFetch == InitFetch /\ [][NextFetch]_vars

\* The user endpoints and logout on their own, over users last seen in the
\* past.
NextUsers ==
    \/ Tick
    \/ \E t \in Tokens, dbOk \in BOOLEAN : Logout(t, dbOk)
    \/ \E t \in Tokens, u \in 1..(NumUsers + 1) : GetUserById(t, u)
    \/ \E t \in Tokens, s \in 0..NumUsers : GetUsers(t, s)
    \/ Respond

SpecUsers == InitUsers /\ [][NextUsers]_vars

\* ----------------------------------------------------------------- claims
\* the record a committed frame of channel c becomes, but for id and timestamp
SameMessage(m, c, data) ==
    /\ m.sender_id = user[c]
    /\ m.receiver_id = data.receiver_id
    /\ m.content = data.content

\* lookup(u): the handles the registry holds for u
Lookup(ac, u) == send_message(ac, u)

\* the channel most recently registered for u
Latest(u) ==
    LET mine == {c \in Channels : pc[c] # "new" /\ user[c] = u}
    IN IF mine = {} THEN 0 ELSE CHOOSE c \in mine : \A d \in mine : d <= c

\* the handler of c is alive and its transport is connected
Live(c) == Running(c) /\ open[c]

\* C1: persist before deliver.  In every reachable state each push that has
\* been attempted has its own committed record (sender, receiver, content) in
\* the store: for every pushed payload there are at least as many such
\* records as pushes of it.
C1_PersistBeforeDeliver ==
    \A i \in 1..Len(pushes) :
        Cardinality({k \in 1..Len(pushes) :
                        /\ user[pushes[k].src] = user[pushes[i].src]
                        /\ pushes[k].text = pushes[i].text})
        <= Cardinality({j \in 1..Len(messages) :
                        SameMessage(messages[j], pushes[i].src, pushes[i].text)})

C1_Witness ==
    /\ Len(pushes) >= 1
    /\ \E j \in 1..Len(messages) :
          SameMessage(messages[j], pushes[1].src, pushes[1].text)

\* C2: a channel whose credential the verifier rejects (missing, invalid or
\* expired) is rejected: the connect step changes nothing, so it neither
\* registers the channel nor makes it active.
C2_VerifyBeforeRegister ==
    [][\A c \in Channels, u \in Users, t \in Tokens, dbOk \in BOOLEAN :
          Connect(c, u, t, dbOk) /\ get_current_user(t, now) = 0
             => UNCHANGED vars]_vars

\* C3: under any interleaving of connects and disconnects for u, as long as
\* the channel most recently registered for u is still open, lookup(u)
\* returns that channel; a stale deregister leaves the registry alone.
C3_NewerRegistrationSurvives ==
    \A u \in Users :
        Latest(u) # 0 /\ Live(Latest(u)) => Lookup(active_connections, u) = {Latest(u)}

\* C4: once a second channel is registered for an identity the displaced
\* channel is no longer live, so no user has two live channels at once.
C4_OneLiveChannelPerUser ==
    \A c \in Channels, d \in Channels :
        c # d /\ Live(c) /\ Live(d) => user[c] # user[d]

\* C5: the registry maps each identity to at most one handle, and the last
\* registration wins: right after a channel c connects as u, lookup(u)
\* returns c and nothing else, whatever was registered for u before.
C5_LastRegistrationWins ==
    [][/\ \A u \in Users : Cardinality(Lookup(active_connections', u)) <= 1
       /\ \A c \in Channels, u \in Users :
             (\E t \in Tokens, dbOk \in BOOLEAN : Connect(c, u, t, dbOk))
                => Lookup(active_connections', u) = {c}]_vars

C5_Witness ==
    /\ Running(1)
    /\ user[1] = user[2]
    /\ Lookup(active_connections, user[1]) = {2}

\* C6: a frame that is parsed and committed while its receiver has a
\* registered channel makes exactly one push, to the channel registered for
\* the frame's receiver_id, of the frame as received; and the record is in
\* the store afterwards.
C6_OnePushToRegisteredReceiver ==
    [][\A c \in Channels, data \in Frames :
          /\ Receive(c, data, TRUE)
          /\ json_loads_ok(data) /\ has_keys(data)
          /\ registered(active_connections, data.receiver_id)
          => /\ \E d \in Channels :
                   /\ <<data.receiver_id, d>> \in active_connections
                   /\ pushes' = Append(pushes, [src |-> c, dst |-> d, text |-> data])
             /\ Len(messages') = Len(messages) + 1
             /\ SameMessage(messages'[Len(messages')], c, data)]_vars

C6_Witness ==
    \E i \in 1..Len(pushes) :
        /\ pushes[i].dst # pushes[i].src
        /\ user[pushes[i].dst] = pushes[i].text.receiver_id
        /\ \E j \in 1..Len(messages) :
              SameMessage(messages[j], pushes[i].src, pushes[i].text)

\* the number of records that were in the store when the process started
Prior == Len(messages) - Len(accepted)

\* the records of a response
Returned(r) == {r.messages[i] : i \in 1..Len(r.messages)}

\* the stored records between a and b, in either direction
Between(a, b) ==
    {messages[j] : j \in {i \in 1..Len(messages) : between(messages[i], a, b)}}

\* C7: a message received while its receiver has no registered channel
\* causes no push, is committed to the store all the same, and is returned
\* by a later conversation fetch between its sender and its receiver.
C7_OfflineMessageFetched ==
    /\ Len(pushes) = Cardinality({k \in 1..Len(accepted) : accepted[k].live})
    /\ \A k \in 1..Len(accepted) :
          ~accepted[k].live =>
             /\ SameMessage(messages[Prior + k], accepted[k].chan, accepted[k].data)
             /\ (/\ resp.status = 200
                 /\ between(messages[Prior + k], resp.caller, resp.other))
                   => messages[Prior + k] \in Returned(resp)

\* C8: the conversation fetch returns exactly the most recent
\* min(count, limit) records of the pair, in ascending timestamp order: no
\* record of the pair that is left out is newer than one that is returned.
C8_MostRecentWindow ==
    resp.status = 200 =>
        LET all == Between(resp.caller, resp.other)
            n == Cardinality(all)
        IN /\ Len(resp.messages) = IF n > LIMIT THEN LIMIT ELSE n
           /\ Returned(resp) \subseteq all
           /\ Cardinality(Returned(resp)) = Len(resp.messages)
           /\ \A i \in 1..(Len(resp.messages) - 1) :
                 resp.messages[i].timestamp <= resp.messages[i + 1].timestamp
           /\ \A m \in all \ Returned(resp) :
                 \A i \in 1..Len(resp.messages) :
                    m.timestamp <= resp.messages[i].timestamp

\* C9: total_count is the number of stored records between caller and other
\* in either direction, the same for fetch(A,B) and fetch(B,A), and has_more
\* is true exactly when total_count is greater than the limit of 100.
C9_TotalCountAndHasMore ==
    resp.status = 200 =>
        /\ resp.total_count =
              Cardinality({j \in 1..Len(messages) :
                  \/ /\ messages[j].sender_id = resp.caller
                     /\ messages[j].receiver_id = resp.other
                  \/ /\ messages[j].sender_id = resp.other
                     /\ messages[j].receiver_id = resp.caller})
        /\ resp.total_count
              = get_messages(messages, resp.caller, resp.other).total_count
        /\ resp.has_more = (resp.total_count > 100)

C9_Witness ==
    /\ resp.status = 200
    /\ resp.has_more
    /\ resp.caller # resp.other
    /\ \E m \in Between(resp.caller, resp.other) : m.sender_id = resp.caller
    /\ \E m \in Between(resp.caller, resp.other) : m.sender_id = resp.other

\* C10: appends of different channel handlers never lose or corrupt a
\* record: whenever N frames have been committed, under any interleaving of
\* the handlers, the store holds the records it started with followed by
\* exactly N records, the k-th with the sender, receiver and content of the
\* k-th committed frame, a fresh id and a timestamp.
C10_NoLostAppend ==
    /\ Prior \in PriorCounts
    /\ SubSeq(messages, 1, Prior) = History(Prior)
    /\ \A k \in 1..Len(accepted) :
          /\ SameMessage(messages[Prior + k], accepted[k].chan, accepted[k].data)
          /\ messages[Prior + k].id = Prior + k
          /\ messages[Prior + k].timestamp \in 0..now
          /\ DOMAIN messages[Prior + k]
                = {"id", "sender_id", "receiver_id", "content", "timestamp"}

C10_Witness ==
    /\ Len(accepted) = 2
    /\ accepted[1].chan # accepted[2].chan
    /\ Len(messages) = Prior + 2

\* C11: when the handler of a channel sees its transport disconnect while it
\* waits in receive_text, the closing cleanup runs in that one step: no
\* registry entry for the channel is left, the user's last_seen is the
\* current time, the store is untouched and the handler has ended.  It runs
\* once: a closed channel stays closed, and neither a further close signal
\* nor a further cleanup happens for it.
C11_CleanupOnce ==
    [][\A c \in Channels :
          /\ Disconnected(c, TRUE)
                => /\ <<user[c], c>> \notin active_connections'
                   /\ last_seen'[user[c]] = now
                   /\ pc'[c] = "closed"
                   /\ messages' = messages
          /\ pc[c] = "closed"
                => /\ pc'[c] = "closed"
                   /\ open'[c] = open[c]
                   /\ ~ClientClose(c)
                   /\ \A dbOk \in BOOLEAN :
                         ~Disconnected(c, dbOk) /\ ~SendRaisesDisconnect(c, dbOk)]_vars

C11_Witness ==
    \E c \in Channels :
        /\ pc[c] = "closed"
        /\ pushes = <<>>
        /\ nframes >= 1
        /\ ~registered(active_connections, user[c])
        /\ last_seen[user[c]] = now

\* C12: a logout of user u deregisters u's channel: when POST /logout of a
\* caller verified as u completes, the registry holds no handle for u (so
\* no later message addressed to u is pushed to the channel u had) and u's
\* last_seen is the current time.
C12_LogoutDeregisters ==
    [][\A t \in Tokens :
          Logout(t, TRUE) /\ get_current_user(t, now) # 0
             => /\ ~registered(active_connections', get_current_user(t, now))
                /\ last_seen'[get_current_user(t, now)] = now]_vars

\* C13: when the INSERT or its commit fails for a well-formed frame, the
\* frame is pushed to nobody, the store holds no record of it, and the
\* sender's channel is closed: its handler has ended, and from then on it
\* takes no further frame and makes no push.
C13_StoreFailureClosesChannel ==
    [][\A c \in Channels :
          /\ \A data \in Frames :
                Receive(c, data, FALSE) /\ json_loads_ok(data) /\ has_keys(data)
                   => /\ pushes' = pushes
                      /\ messages' = messages
                      /\ pc'[c] = "failed_store"
                      /\ ~open'[c]
          /\ pc[c] = "failed_store"
                => /\ pc'[c] = "failed_store"
                   /\ ~open'[c]
                   /\ \A data \in Frames, dbOk \in BOOLEAN : ~Receive(c, data, dbOk)
                   /\ \/ pushes' = pushes
                      \/ pushes'[Len(pushes')].src # c]_vars

C13_Witness ==
    \E c \in Channels, d \in Channels :
        /\ pc[c] = "failed_store"
        /\ ~open[c]
        /\ Live(d)
        /\ \A u \in Users : registered(active_connections, u)
        /\ pushes = <<>>
        /\ accepted = <<>>
        /\ messages = History(Len(messages))

\* C14: a failed push is absorbed.  Whatever send_text does on a transport
\* that is gone, the sender's handler goes back to receive_text with its
\* channel open and its registration as it was, the push is not made again,
\* and the store keeps the message.
C14_FailedPushAbsorbed ==
    [][\A c \in Channels :
          (\/ SendDropped(c)
           \/ SendRaises(c)
           \/ \E dbOk \in BOOLEAN : SendRaisesDisconnect(c, dbOk))
             => /\ pc'[c] = "recv"
                /\ open'[c] = open[c]
                /\ (<<user[c], c>> \in active_connections')
                      = (<<user[c], c>> \in active_connections)
                /\ pushes' = pushes
                /\ messages' = messages]_vars

\* C15: a user is reported online by GET /users and GET /users/{id} exactly
\* when less than 30 seconds have passed since the user's last_seen; a user
\* last seen 30 seconds or more ago, a day or more included, is not
\* reported online.
C15_OnlineWithinWindow ==
    (resp.status = 200 /\ "users" \in DOMAIN resp) =>
        \A e \in resp.users : e.online = (now - last_seen[e.id] < 30)

\* the token is present, correctly signed, unexpired and carries an identity
ValidToken(t) ==
    /\ t.present
    /\ t.signed
    /\ now <= t.exp
    /\ t.user_id \in Users

\* C16: for a token that is present, correctly signed, unexpired and
\* carries an identity the verifier returns that identity: the endpoints
\* answer 200 on behalf of it and logout writes its last_seen.  For a token
\* that is absent, badly signed, expired or without identity it returns
\* None without raising: the endpoints answer 401 (not found or a server
\* error never), disclose nothing, and no state changes.
C16_VerifierReturnsIdentityOrNone ==
    [][\A t \in Tokens :
          /\ \A s \in 0..NumUsers :
                GetUsers(t, s)
                   => IF ValidToken(t)
                      THEN resp'.status = 200 /\ resp'.caller = t.user_id
                      ELSE resp' = [status |-> 401, caller |-> 0, users |-> {}]
          /\ \A u \in 1..(NumUsers + 1) :
                GetUserById(t, u)
                   => IF ValidToken(t)
                      THEN resp'.status \in {200, 404} /\ resp'.caller = t.user_id
                      ELSE resp' = [status |-> 401, caller |-> 0, users |-> {}]
          /\ \A dbOk \in BOOLEAN :
                Logout(t, dbOk)
                   => IF ValidToken(t) /\ dbOk
                      THEN last_seen' = [last_seen EXCEPT ![t.user_id] = now]
                      ELSE UNCHANGED vars]_vars

C16_Witness ==
    /\ now = MaxTime
    /\ last_seen[1] = now
    /\ resp = [status |-> 401, caller |-> 0, users |-> {}]

\* C17: on one channel messages are persisted in the order they were
\* received: of two frames of the same channel that were both stored, the
\* one received first has the record with the smaller id and with a
\* timestamp that is not later.
C17_PerChannelOrder ==
    \A k1 \in 1..Len(accepted), k2 \in 1..Len(accepted) :
        (k1 < k2 /\ accepted[k1].chan = accepted[k2].chan)
           => LET m1 == messages[Prior + k1]
                  m2 == messages[Prior + k2]
              IN /\ SameMessage(m1, accepted[k1].chan, accepted[k1].data)
                 /\ SameMessage(m2, accepted[k2].chan, accepted[k2].data)
                 /\ m1.id < m2.id
                 /\ m1.timestamp <= m2.timestamp

C17_Witness ==
    /\ Len(accepted) = 2
    /\ accepted[1].chan = accepted[2].chan
    /\ accepted[1].data # accepted[2].data
    /\ messages[Prior + 1].timestamp < messages[Prior + 2].timestamp

\* C18: the store is append-only.  Every step of the system (connect, a
\* turn of the receive loop, disconnect, conversation fetch, logout) either
\* leaves the records as they are or adds exactly one record after them; no
\* step removes a record or changes a field of one.
C18_AppendOnly ==
    [][\/ messages' = messages
       \/ /\ Len(messages') = Len(messages) + 1
          /\ SubSeq(messages', 1, Len(messages)) = messages]_vars

C18_Witness ==
    /\ Len(accepted) >= 1
    /\ Len(messages) = LIMIT + Len(accepted)
    /\ resp.status = 200
    /\ \E c \in Channels : pc[c] = "closed"

\* C19: the registry never keeps a handle whose handler has ended: whatever
\* ended it (transport disconnect, a malformed or incomplete frame, a
\* storage failure, a failed push, a failure of the last_seen update during
\* connect), every channel the registry maps an identity to has a handler
\* that is still running.
C19_NoHandleOfEndedHandler ==
    \A p \in active_connections : Running(p[2])

\* C20: the conversation fetch discloses only the caller's own
\* conversations.  A fetch by a caller verified as A about B answers 200 on
\* behalf of A and B, and every record it returns has sender and receiver
\* A and B, one each way round; a fetch with no valid credential answers
\* 401 and returns no record.
C20_OnlyOwnConversations ==
    [][\A t \in Tokens, o \in Users :
          Fetch(t, o)
             => IF ValidToken(t)
                THEN /\ resp'.status = 200
                     /\ resp'.caller = t.user_id
                     /\ resp'.other = o
                     /\ \A i \in 1..Len(resp'.messages) :
                           /\ {resp'.messages[i].sender_id,
                               resp'.messages[i].receiver_id} = {t.user_id, o}
                           /\ \E j \in 1..Len(messages) :
                                 messages[j] = resp'.messages[i]
                ELSE /\ resp'.status = 401
                     /\ resp'.messages = <<>>
                     /\ resp'.total_count = 0]_vars

C20_Witness ==
    /\ resp.status = 200
    /\ resp.messages # <<>>
    /\ \E j \in 1..Len(messages) :
          {messages[j].sender_id, messages[j].receiver_id}
             # {resp.caller, resp.other}

====
